---- MODULE Spec2Model ----
(***************************************************************************)
(* State-recovery attack on the 128-bit linear generator.                  *)
(*                                                                         *)
(* A Python integer of at most 256 bits is modelled by the set of the      *)
(* positions of its 1 bits (bit 0 is the least significant), so that       *)
(* x ^ y is the symmetric difference, x & y the intersection, x | y the    *)
(* union (of values whose operands are as the code has them), x << n the   *)
(* translation by +n and x >> n the translation by -n that drops what      *)
(* falls below position 0.                                                 *)
(***************************************************************************)
EXTENDS Integers, Sequences, FiniteSets, TLC

VARIABLES variant, OUTPUT_MODE, OUTPUT_SELECT, output_bits, samples,
          rng_state, raw_outs, obs, pc, maps, rows, rhs,
          w_rows, w_rhs, pivot, row, col, sol, predicted, cand, expected, ok,
          SEED_VAL, peeked, requests

vars == <<variant, OUTPUT_MODE, OUTPUT_SELECT, output_bits, samples,
          rng_state, raw_outs, obs, pc, maps, rows, rhs,
          w_rows, w_rhs, pivot, row, col, sol, predicted, cand, expected, ok,
          SEED_VAL, peeked, requests>>

-----------------------------------------------------------------------------
(* Bounds and input pools *)

MaxSamples == 3

MaxEq == 2

MaxCalls == 10

MaxRequests == 4

BITS == 128

MASK128 == 0 .. (BITS - 1)

SEED ==
  {0, 1, 2, 3, 5, 6, 7, 8, 10, 11, 14, 15, 16, 17, 19, 21, 23, 28, 31, 35,
   36, 37, 38, 41, 42, 44, 46, 50, 52, 53, 57, 60, 64, 65, 66, 67, 69, 70,
   71, 72, 74, 75, 78, 79, 80, 81, 83, 85, 87, 92, 95, 99, 100, 101, 102,
   105, 106, 108, 110, 114, 116, 117, 121, 124}

Seeds == {SEED, {}, {0, 127}, {5, 64, 121, 128}}

OutputBitsPool == {0, 1, 64, 128, 129}

MacPool == {{}, {255}, {3, 127, 128, 200, 255}}

MaskPool == SUBSET {0, 64, 127}

OracleBitsPool == {1, 64, 128}

CandidatePool == <<(<<"0">>), (<<"1">>), (<<"F", "f">>), (<<"z", "1">>), (<<>>)>>

(* JSON bodies of POST /validate: no or empty body, a body without        *)
(* 'candidate', and one body per candidate string                          *)
BodyPool ==
  <<(<<>>), [other |-> <<"1">>]>>
    \o [k \in 1 .. Len(CandidatePool) |-> [candidate |-> CandidatePool[k]]]

-----------------------------------------------------------------------------
(* Integer operations on bit sets *)

And(x, y) == x \cap y

Or(x, y) == x \cup y

Xor(x, y) == (x \ y) \cup (y \ x)

ShiftLeft(x, n) == {i + n : i \in x}

ShiftRight(x, n) == {i - n : i \in {j \in x : j >= n}}

Ones(n) == 0 .. (n - 1)

Bit(x, b) == IF b \in x THEN 1 ELSE 0

Parity(x) == Cardinality(x) % 2

None == <<>>

-----------------------------------------------------------------------------
(* oracle/RNG128.py *)

rotl(x, r) ==
  LET rr == r % BITS
  IN  Or(And(ShiftLeft(x, rr), Ones(BITS)), ShiftRight(x, BITS - rr))

Linear128RNG_init_unmasked(seed) == seed

Linear128RNG_init(seed) == And(seed, MASK128)

next_raw_or(s) ==
  LET t0 == s
      t1 == Xor(t0, And(ShiftLeft(s, 7), MASK128))
      t2 == Or(t1, ShiftRight(s, 13))
      t3 == Xor(t2, rotl(s, 37))
  IN  And(t3, MASK128)

next_raw_value(s) ==
  LET t0 == s
      t1 == Xor(t0, And(ShiftLeft(s, 7), MASK128))
      t2 == Xor(t1, ShiftRight(s, 13))
      t3 == Xor(t2, rotl(s, 37))
  IN  And(t3, MASK128)

(* Linear128RNG.peek_next *)
peek_next_value(s) ==
  LET t0 == s
      t1 == Xor(t0, And(ShiftLeft(s, 7), MASK128))
      t2 == Xor(t1, ShiftRight(s, 13))
      t3 == Xor(t2, rotl(s, 37))
  IN  And(t3, MASK128)

(* oracle/RNG_hmac.py: the state becomes the first 16 bytes of the mac *)
hmac_new_state(mac) == And(ShiftRight(mac, 128), MASK128)

(* oracle/app.py *)
mask_output(x, bits, select) ==
  IF bits >= 128 THEN And(x, MASK128)
  ELSE IF select = "high"
       THEN And(ShiftRight(x, 128 - bits), Ones(bits))
       ELSE And(x, Ones(bits))

hmac_output(val, bits) ==
  IF bits >= 256 THEN val
  ELSE And(ShiftRight(val, 256 - bits), Ones(bits))

(* derive_seed with SEED_MODE = 'fixed' *)
derive_seed(seed) == And(seed, MASK128)

(* int(data['candidate'], 16) on a string of characters: a non-empty run   *)
(* of hexadecimal digits is a value, anything else in the pool raises.     *)
HexLower == <<"0", "1", "2", "3", "4", "5", "6", "7", "8", "9",
              "a", "b", "c", "d", "e", "f">>

HexUpper == <<"0", "1", "2", "3", "4", "5", "6", "7", "8", "9",
              "A", "B", "C", "D", "E", "F">>

is_hex_digit(c) == \E k \in 1 .. 16 : HexLower[k] = c \/ HexUpper[k] = c

hex_digit_value(c) ==
  (CHOOSE k \in 1 .. 16 : HexLower[k] = c \/ HexUpper[k] = c) - 1

int16_raises(str) ==
  Len(str) = 0 \/ \E k \in 1 .. Len(str) : ~is_hex_digit(str[k])

int16(str) ==
  UNION {{4 * (Len(str) - k) + b :
             b \in {e \in 0 .. 3 : (hex_digit_value(str[k]) \div (2 ^ e)) % 2 = 1}} :
         k \in 1 .. Len(str)}

(* app.validate: the two early returns with status 400 *)
validate_status(data) ==
  IF DOMAIN data = {} \/ ~("candidate" \in DOMAIN data) THEN 400
  ELSE IF int16_raises(data.candidate) THEN 400
  ELSE 200

-----------------------------------------------------------------------------
(* recover.py: build_maps.  Iteration i of the inner loop XORs            *)
(* state_coeffs[i] into new_coeffs[i], into new_coeffs[i + 7] if           *)
(* i + 7 < BITS, into new_coeffs[i - 13] if i - 13 >= 0 and into           *)
(* new_coeffs[(i + 37) % BITS].  Each of the four writes reaches a given   *)
(* index j from at most one i, so new_coeffs[j] is the XOR of the          *)
(* state_coeffs[i] of those (at most four) iterations.                     *)

from_shl_wrapping(j) == {i \in 0 .. (BITS - 1) : (i + 7) % BITS = j}

from_shl(j) == {i \in 0 .. (BITS - 1) : i + 7 < BITS /\ i + 7 = j}

from_shr(j) == {i \in 0 .. (BITS - 1) : i - 13 >= 0 /\ i - 13 = j}

from_rot(j) == {i \in 0 .. (BITS - 1) : (i + 37) % BITS = j}

RECURSIVE XorAll(_, _)
XorAll(state_coeffs, S) ==
  IF S = {} THEN {}
  ELSE LET i == CHOOSE k \in S : TRUE
       IN  Xor(state_coeffs[i], XorAll(state_coeffs, S \ {i}))

build_maps_advance(state_coeffs) ==
  [j \in 0 .. (BITS - 1) |->
     Xor(Xor(Xor(state_coeffs[j], XorAll(state_coeffs, from_shl(j))),
             XorAll(state_coeffs, from_shr(j))),
         XorAll(state_coeffs, from_rot(j)))]

RECURSIVE build_maps_loop(_, _, _, _)
build_maps_loop(steps, step, state_coeffs, acc) ==
  IF step >= steps THEN acc
  ELSE build_maps_loop(steps, step + 1, build_maps_advance(state_coeffs),
                       Append(acc, state_coeffs))

build_maps_recording_late(steps) ==
  build_maps_loop(steps, 0,
                  build_maps_advance([i \in 0 .. (BITS - 1) |-> {i}]), <<>>)

build_maps(steps) ==
  build_maps_loop(steps, 0, [i \in 0 .. (BITS - 1) |-> {i}], <<>>)

(* attacker/recover.py: build_symbolic_map, the same loop with the writes  *)
(* in the order i+7, i-13, (i+37)%128, i and the width written as 128.     *)

build_symbolic_map_advance(state_coeffs) ==
  [j \in 0 .. 127 |->
     Xor(Xor(Xor(XorAll(state_coeffs, {i \in 0 .. 127 : i + 7 < 128 /\ i + 7 = j}),
                 XorAll(state_coeffs, {i \in 0 .. 127 : i - 13 >= 0 /\ i - 13 = j})),
             XorAll(state_coeffs, {i \in 0 .. 127 : (i + 37) % 128 = j})),
         state_coeffs[j])]

RECURSIVE build_symbolic_map_loop(_, _, _, _)
build_symbolic_map_loop(steps, step, state_coeffs, acc) ==
  IF step >= steps THEN acc
  ELSE build_symbolic_map_loop(steps, step + 1,
                               build_symbolic_map_advance(state_coeffs),
                               Append(acc, state_coeffs))

build_symbolic_map(steps) ==
  build_symbolic_map_loop(steps, 0, [i \in 0 .. 127 |-> {i}], <<>>)

-----------------------------------------------------------------------------
(* recover.py: construct_equations.  The rows and the right-hand sides   *)
(* are appended in the order of the two loops, t outermost.               *)

StepMapIndex(b) == b

kept_bits(m, t, nbits) ==
  SelectSeq([k \in 1 .. nbits |-> k - 1],
            LAMBDA b : m[t + 1][StepMapIndex(b)] # {})

RECURSIVE construct_rows(_, _, _, _)
construct_rows(m, observed, nbits, t) ==
  IF t >= Len(observed) THEN <<>>
  ELSE [k \in 1 .. Len(kept_bits(m, t, nbits)) |->
          m[t + 1][StepMapIndex(kept_bits(m, t, nbits)[k])]]
         \o construct_rows(m, observed, nbits, t + 1)

RECURSIVE construct_rhs(_, _, _, _)
construct_rhs(m, observed, nbits, t) ==
  IF t >= Len(observed) THEN <<>>
  ELSE [k \in 1 .. Len(kept_bits(m, t, nbits)) |->
          Bit(observed[t + 1], kept_bits(m, t, nbits)[k])]
         \o construct_rhs(m, observed, nbits, t + 1)

(* maps[t][b] raises IndexError as soon as b reaches 128 *)
construct_raises(observed, nbits) == Len(observed) > 0 /\ nbits > BITS

-----------------------------------------------------------------------------
(* recover.py: predict_next_from_state and its local rotl *)

predict_rotl_no_wrap(x, r) == And(ShiftLeft(x, r % 128), Ones(128))

predict_rotl(x, r) ==
  LET rr == r % 128
  IN  Or(And(ShiftLeft(x, rr), Ones(128)), ShiftRight(x, 128 - rr))

predict_step(st) ==
  LET t1 == Xor(st, And(ShiftLeft(st, 7), Ones(128)))
      t2 == Xor(t1, ShiftRight(st, 13))
      t3 == Xor(t2, predict_rotl(st, 37))
  IN  And(t3, Ones(128))

RECURSIVE predict_one_step_short(_, _)
predict_one_step_short(state, steps) ==
  IF steps <= 1 THEN state
  ELSE predict_one_step_short(predict_step(state), steps - 1)

RECURSIVE predict_next_from_state(_, _)
predict_next_from_state(state, steps) ==
  IF steps <= 0 THEN state
  ELSE predict_next_from_state(predict_step(state), steps - 1)

(* attacker/recover.py: advance_once and the loop that applies it *)
advance_once(state) ==
  LET s == state
      t == Xor(Xor(Xor(s, And(ShiftLeft(s, 7), Ones(128))), ShiftRight(s, 13)),
               predict_rotl(s, 37))
  IN  And(t, Ones(128))

RECURSIVE advance_loop(_, _)
advance_loop(st, n) ==
  IF n <= 0 THEN st ELSE advance_loop(advance_once(st), n - 1)

(* recover.py __main__: the candidate sent to /validate *)
truncate_candidate(p, nbits) ==
  IF nbits < 128
  THEN IF nbits = 0 THEN {}
       ELSE And(ShiftRight(p, 128 - nbits), Ones(nbits))
  ELSE And(p, Ones(128))

-----------------------------------------------------------------------------
(* solve_gf2 *)

n_eq == Len(w_rows)

(* rows that the inner search `for r in range(row, n_eq)` accepts *)
sel_candidates(c) == {r \in row .. (n_eq - 1) : c \in w_rows[r + 1]}

Min(S) == CHOOSE x \in S : \A y \in S : x <= y

swap(s, a, b) == [s EXCEPT ![a + 1] = s[b + 1], ![b + 1] = s[a + 1]]

eliminate_rows(sw_rows, c) ==
  [r \in 1 .. Len(sw_rows) |->
     IF (r - 1) # row /\ c \in sw_rows[r]
     THEN Xor(sw_rows[r], sw_rows[row + 1])
     ELSE sw_rows[r]]

eliminate_rhs_forgotten(sw_rows, sw_rhs, c) ==
  [r \in 1 .. Len(sw_rows) |-> sw_rhs[r]]

eliminate_rhs(sw_rows, sw_rhs, c) ==
  [r \in 1 .. Len(sw_rows) |->
     IF (r - 1) # row /\ c \in sw_rows[r]
     THEN (sw_rhs[r] + sw_rhs[row + 1]) % 2
     ELSE sw_rhs[r]]

form_solution_by_row == {p[2] : p \in {q \in pivot : w_rhs[q[2] + 1] = 1}}

form_solution == {p[1] : p \in {q \in pivot : w_rhs[q[2] + 1] = 1}}

verify_skipped(s) == TRUE

verify(s) ==
  \A r \in 1 .. Len(w_rows) : Parity(And(w_rows[r], s)) = w_rhs[r]

-----------------------------------------------------------------------------
(* Initial states *)

InitCommon ==
  /\ raw_outs = <<>>
  /\ obs = <<>>
  /\ maps = <<>>
  /\ pivot = {}
  /\ row = 0
  /\ col = BITS - 1
  /\ sol = None
  /\ predicted = None
  /\ cand = None
  /\ expected = None
  /\ ok = FALSE
  /\ peeked = None
  /\ requests = <<>>

Init ==
  /\ variant \in {"recover", "attacker"}
  /\ OUTPUT_MODE \in {"raw", "hmac"}
  /\ OUTPUT_SELECT \in {"high", "low"}
  /\ output_bits \in OutputBitsPool
  /\ samples \in 0 .. MaxSamples
  /\ variant = "attacker" => (samples = 2 /\ output_bits = 128)
  /\ \E seed \in Seeds : SEED_VAL = derive_seed(seed)
  /\ rng_state = Linear128RNG_init(SEED_VAL)
  /\ pc = "query"
  /\ rows = <<>>
  /\ rhs = <<>>
  /\ w_rows = <<>>
  /\ w_rhs = <<>>
  /\ InitCommon

(* solve_gf2 called directly on an arbitrary list of equations *)
InitSolve ==
  /\ variant = "direct"
  /\ OUTPUT_MODE = "raw"
  /\ OUTPUT_SELECT = "high"
  /\ output_bits = 128
  /\ samples = 0
  /\ SEED_VAL = {}
  /\ rng_state = {}
  /\ pc = "solve"
  /\ \E n \in 0 .. MaxEq :
       /\ rows \in [1 .. n -> MaskPool]
       /\ rhs \in [1 .. n -> {0, 1}]
  /\ w_rows = rows
  /\ w_rhs = rhs
  /\ InitCommon

-----------------------------------------------------------------------------
(* Actions *)

solver_vars == <<w_rows, w_rhs, pivot, row, col, sol>>
config_vars == <<variant, OUTPUT_MODE, OUTPUT_SELECT, output_bits, samples, SEED_VAL>>
result_vars == <<predicted, cand, expected, ok>>

(* One iteration of query_oracle: GET /get_output served by app.get_output *)
get_output ==
  /\ pc = "query"
  /\ Len(obs) < samples
  /\ \/ /\ OUTPUT_MODE = "hmac"
        /\ \E mac \in MacPool :
             /\ rng_state' = hmac_new_state(mac)
             /\ raw_outs' = Append(raw_outs, mac)
             /\ obs' = Append(obs, hmac_output(mac, output_bits))
     \/ /\ OUTPUT_MODE # "hmac"
        /\ LET val == next_raw_value(rng_state)
           IN  /\ rng_state' = val
               /\ raw_outs' = Append(raw_outs, val)
               /\ obs' = Append(obs, mask_output(val, output_bits, OUTPUT_SELECT))
  /\ UNCHANGED <<pc, maps, rows, rhs>>
  /\ UNCHANGED solver_vars
  /\ UNCHANGED config_vars
  /\ UNCHANGED result_vars
  /\ requests' = Append(requests, <<"get_output", 200>>)
  /\ UNCHANGED peeked

(* construct_system has the width 128 where construct_equations has its   *)
(* output_bits argument                                                   *)
equation_bits == IF variant = "recover" THEN output_bits ELSE 128

(* The first two lines of construct_equations / construct_system *)
build_maps_call ==
  /\ pc = "query"
  /\ Len(obs) = samples
  /\ maps' = IF variant = "recover" THEN build_maps(Len(obs))
             ELSE build_symbolic_map(Len(obs))
  /\ pc' = "construct"
  /\ UNCHANGED <<rng_state, raw_outs, obs, rows, rhs>>
  /\ UNCHANGED solver_vars
  /\ UNCHANGED config_vars
  /\ UNCHANGED result_vars
  /\ UNCHANGED <<peeked, requests>>

(* The loops of construct_equations / construct_system, then the copies   *)
(* solve_gf2 makes of its arguments                                       *)
construct_equations ==
  /\ pc = "construct"
  /\ IF variant = "recover" /\ construct_raises(obs, output_bits)
     THEN /\ pc' = "IndexError"
          /\ UNCHANGED <<rows, rhs, w_rows, w_rhs>>
     ELSE /\ rows' = construct_rows(maps, obs, equation_bits, 0)
          /\ rhs' = construct_rhs(maps, obs, equation_bits, 0)
          /\ w_rows' = rows'
          /\ w_rhs' = rhs'
          /\ pc' = "solve"
  /\ UNCHANGED <<rng_state, raw_outs, obs, maps, pivot, row, col, sol>>
  /\ UNCHANGED config_vars
  /\ UNCHANGED result_vars
  /\ UNCHANGED <<peeked, requests>>

(* One iteration of `for col in reversed(range(BITS))` in solve_gf2 *)
solve_iter ==
  /\ pc = "solve"
  /\ col >= 0
  /\ IF sel_candidates(col) = {}
     THEN /\ UNCHANGED <<w_rows, w_rhs, pivot, row>>
          /\ pc' = IF col = 0 THEN "form" ELSE "solve"
     ELSE LET sel == Min(sel_candidates(col))
              sw_rows == swap(w_rows, row, sel)
              sw_rhs == swap(w_rhs, row, sel)
          IN  /\ pivot' = pivot \cup {<<col, row>>}
              /\ w_rows' = eliminate_rows(sw_rows, col)
              /\ w_rhs' = eliminate_rhs(sw_rows, sw_rhs, col)
              /\ row' = row + 1
              /\ pc' = IF row + 1 >= n_eq \/ col = 0 THEN "form" ELSE "solve"
  /\ col' = col - 1
  /\ UNCHANGED <<rng_state, raw_outs, obs, maps, rows, rhs, sol>>
  /\ UNCHANGED config_vars
  /\ UNCHANGED result_vars
  /\ UNCHANGED <<peeked, requests>>

(* The tail of solve_gf2: form the solution, verify it, return *)
solve_finish ==
  /\ pc = "form"
  /\ sol' = IF verify(form_solution) THEN <<form_solution>> ELSE None
  /\ pc' = "solved"
  /\ UNCHANGED <<rng_state, raw_outs, obs, maps, rows, rhs, w_rows, w_rhs, pivot, row, col>>
  /\ UNCHANGED config_vars
  /\ UNCHANGED result_vars
  /\ UNCHANGED <<peeked, requests>>

(* __main__ after solve_gf2: report failure, or predict and build the candidate *)
predict ==
  /\ pc = "solved"
  /\ variant # "direct"
  /\ IF sol = None
     THEN /\ pc' = "failed"
          /\ UNCHANGED <<predicted, cand>>
     ELSE LET p == IF variant = "recover"
                   THEN predict_next_from_state(sol[1], Len(obs))
                   ELSE advance_loop(sol[1], Len(obs))
          IN  /\ predicted' = <<p>>
              /\ cand' = IF variant = "recover"
                         THEN <<truncate_candidate(p, output_bits)>>
                         ELSE <<p>>
              /\ pc' = "validate"
  /\ UNCHANGED <<rng_state, raw_outs, obs, maps, rows, rhs, expected, ok>>
  /\ UNCHANGED solver_vars
  /\ UNCHANGED config_vars
  /\ UNCHANGED <<peeked, requests>>

(* POST /validate served by app.validate with a parsable candidate *)
validate ==
  /\ pc = "validate"
  /\ \E true \in IF OUTPUT_MODE = "hmac" THEN MacPool
                 ELSE {next_raw_value(rng_state)} :
       /\ rng_state' = IF OUTPUT_MODE = "hmac" THEN hmac_new_state(true) ELSE true
       /\ raw_outs' = Append(raw_outs, true)
       /\ expected' = <<mask_output(true, output_bits, OUTPUT_SELECT)>>
       /\ ok' = (And(cand[1], Ones(output_bits)) = expected'[1])
  /\ pc' = "done"
  /\ UNCHANGED <<obs, maps, rows, rhs, predicted, cand>>
  /\ UNCHANGED solver_vars
  /\ UNCHANGED config_vars
  /\ requests' = Append(requests, <<"validate", 200>>)
  /\ UNCHANGED peeked

Next ==
  \/ get_output
  \/ build_maps_call
  \/ construct_equations
  \/ solve_iter
  \/ solve_finish
  \/ predict
  \/ validate

Spec == Init /\ [][Next]_vars

NextSolve ==
  \/ solve_iter
  \/ solve_finish

SpecSolve == InitSolve /\ [][NextSolve]_vars

-----------------------------------------------------------------------------
(* The generator object on its own: Linear128RNG(seed), then any sequence  *)
(* of next_raw and peek_next calls.  SEED_VAL is the constructor argument. *)

(* arguments of Linear128RNG(seed): the seeds above and -1, written as its *)
(* two's complement cut at 256 bits                                        *)
ConstructorSeeds == Seeds \cup {0 .. 255}

InitRNG ==
  /\ variant = "rng"
  /\ OUTPUT_MODE = "raw"
  /\ OUTPUT_SELECT = "high"
  /\ output_bits = 128
  /\ samples = 0
  /\ SEED_VAL \in ConstructorSeeds
  /\ rng_state = Linear128RNG_init(SEED_VAL)
  /\ pc = "rng"
  /\ rows = <<>>
  /\ rhs = <<>>
  /\ w_rows = <<>>
  /\ w_rhs = <<>>
  /\ InitCommon

attacker_vars == <<obs, maps, rows, rhs>>

next_raw ==
  /\ pc = "rng"
  /\ Len(raw_outs) < MaxCalls
  /\ rng_state' = next_raw_value(rng_state)
  /\ raw_outs' = Append(raw_outs, rng_state')
  /\ UNCHANGED <<pc, peeked, requests>>
  /\ UNCHANGED attacker_vars
  /\ UNCHANGED solver_vars
  /\ UNCHANGED config_vars
  /\ UNCHANGED result_vars

peek_next ==
  /\ pc = "rng"
  /\ peeked' = <<peek_next_value(rng_state)>>
  /\ UNCHANGED <<pc, rng_state, raw_outs, requests>>
  /\ UNCHANGED attacker_vars
  /\ UNCHANGED solver_vars
  /\ UNCHANGED config_vars
  /\ UNCHANGED result_vars

NextRNG ==
  \/ next_raw
  \/ peek_next

SpecRNG == InitRNG /\ [][NextRNG]_vars

-----------------------------------------------------------------------------
(* The oracle on its own: app.py serving any sequence of requests.  obs    *)
(* collects the outputs returned by /get_output.                           *)

InitOracle ==
  /\ variant = "oracle"
  /\ OUTPUT_MODE \in {"raw", "hmac"}
  /\ OUTPUT_SELECT \in {"high", "low"}
  /\ output_bits \in OracleBitsPool
  /\ samples = 0
  /\ \E seed \in Seeds : SEED_VAL = derive_seed(seed)
  /\ rng_state = Linear128RNG_init(SEED_VAL)
  /\ pc = "serving"
  /\ rows = <<>>
  /\ rhs = <<>>
  /\ w_rows = <<>>
  /\ w_rhs = <<>>
  /\ InitCommon

(* RNG.next_raw() of whichever generator OUTPUT_MODE selected returns val *)
RNG_next_raw(val) ==
  /\ IF OUTPUT_MODE = "hmac"
     THEN val \in MacPool /\ rng_state' = hmac_new_state(val)
     ELSE val = next_raw_value(rng_state) /\ rng_state' = val
  /\ raw_outs' = Append(raw_outs, val)

RNG_return_values ==
  IF OUTPUT_MODE = "hmac" THEN MacPool ELSE {next_raw_value(rng_state)}

http_get_output ==
  /\ pc = "serving"
  /\ Len(requests) < MaxRequests
  /\ \E val \in RNG_return_values :
       /\ RNG_next_raw(val)
       /\ obs' = Append(obs, IF OUTPUT_MODE = "hmac"
                             THEN hmac_output(val, output_bits)
                             ELSE mask_output(val, output_bits, OUTPUT_SELECT))
  /\ requests' = Append(requests, <<"get_output", 200>>)
  /\ UNCHANGED <<pc, maps, rows, rhs, peeked>>
  /\ UNCHANGED solver_vars
  /\ UNCHANGED config_vars
  /\ UNCHANGED result_vars

(* a 400 response of validate, taken with next_raw called first *)
validate_reject_after_advance ==
  /\ \E val \in RNG_return_values : RNG_next_raw(val)
  /\ requests' = Append(requests, <<"validate", 400>>)
  /\ UNCHANGED <<pc, peeked>>
  /\ UNCHANGED attacker_vars
  /\ UNCHANGED solver_vars
  /\ UNCHANGED config_vars
  /\ UNCHANGED result_vars

(* the two `return ..., 400` of validate *)
validate_reject ==
  /\ requests' = Append(requests, <<"validate", 400>>)
  /\ UNCHANGED <<pc, rng_state, raw_outs, peeked>>
  /\ UNCHANGED attacker_vars
  /\ UNCHANGED solver_vars
  /\ UNCHANGED config_vars
  /\ UNCHANGED result_vars

(* validate from `true = RNG.next_raw()` on *)
validate_accept(data) ==
  /\ \E true \in RNG_return_values :
       /\ RNG_next_raw(true)
       /\ expected' = <<mask_output(true, output_bits, OUTPUT_SELECT)>>
       /\ cand' = <<int16(data.candidate)>>
       /\ ok' = (And(cand'[1], Ones(output_bits)) = expected'[1])
  /\ requests' = Append(requests, <<"validate", 200>>)
  /\ UNCHANGED <<pc, peeked, predicted>>
  /\ UNCHANGED attacker_vars
  /\ UNCHANGED solver_vars
  /\ UNCHANGED config_vars

http_validate ==
  /\ pc = "serving"
  /\ Len(requests) < MaxRequests
  /\ \E k \in 1 .. Len(BodyPool) :
       IF validate_status(BodyPool[k]) = 400
       THEN validate_reject
       ELSE validate_accept(BodyPool[k])

NextOracle ==
  \/ http_get_output
  \/ http_validate

SpecOracle == InitOracle /\ [][NextOracle]_vars

-----------------------------------------------------------------------------
(* Properties *)

(* t successive next_raw calls on a generator whose state is s *)
RECURSIVE raw_after(_, _)
raw_after(s, t) == IF t <= 0 THEN s ELSE raw_after(next_raw_value(s), t - 1)

StatePool == {And(x, MASK128) : x \in Seeds} \cup {And(rng_state, MASK128)}

satisfies(mask, x, bit) == Parity(And(mask, x)) = bit

solver_reached == pc \in {"solve", "form", "solved", "validate", "done", "failed"}

(* C1: whenever solve_gf2 returns a value, that value satisfies every      *)
(* equation of the list it was called with.                                *)
C1_ReturnedSolutionSatisfiesInput ==
  (pc = "solved" /\ sol # None) =>
     \A k \in 1 .. Len(rows) : satisfies(rows[k], sol[1], rhs[k])

C1_Witness ==
  /\ pc = "solved"
  /\ sol # None
  /\ Len(rows) >= 2
  /\ w_rows # rows
  /\ sol[1] # {}

(* C2: from the two full-width observations s0 and advance(s0), solve_gf2  *)
(* returns exactly s0.                                                     *)
C2_ExactRecovery ==
  (/\ pc = "solved"
   /\ equation_bits = 128
   /\ Len(obs) = 2
   /\ obs[2] = next_raw_value(obs[1])) => sol = <<obs[1]>>

C2_Witness ==
  /\ pc = "solved"
  /\ OUTPUT_MODE = "raw"
  /\ equation_bits = 128
  /\ Len(obs) = 2
  /\ obs[1] # {}
  /\ obs[2] = next_raw_value(obs[1])
  /\ sol = <<obs[1]>>

(* C3: with one revealed bit and one observation solve_gf2 returns None.   *)
C3_SingleEquationFails ==
  (/\ pc = "solved"
   /\ variant = "recover"
   /\ output_bits = 1
   /\ Len(obs) = 1) => sol = None

(* C4: a state recovered from k >= 1 consecutive full-width outputs of     *)
(* next_raw predicts, after k steps, the value the next next_raw returns.  *)
C4_PredictionMatchesNextOutput ==
  (/\ pc = "done"
   /\ OUTPUT_MODE = "raw"
   /\ output_bits >= 128
   /\ Len(obs) >= 1) => predicted = <<raw_outs[Len(raw_outs)]>>

C4_Witness ==
  /\ pc = "done"
  /\ OUTPUT_MODE = "raw"
  /\ output_bits >= 128
  /\ Len(obs) >= 3
  /\ Len(raw_outs) = Len(obs) + 1
  /\ predicted = <<raw_outs[Len(raw_outs)]>>
  /\ predicted[1] # {}

(* C5: every mask of the step maps evaluates, on a state s, to the bit of  *)
(* s advanced t times by the generator.                                    *)
C5_MapFidelity ==
  pc = "construct" =>
     \A s \in StatePool : \A t \in 0 .. (Len(maps) - 1) : \A i \in 0 .. (BITS - 1) :
        satisfies(maps[t + 1][i], s, Bit(raw_after(s, t), i))

C5_Witness ==
  /\ pc = "construct"
  /\ Len(maps) >= 3
  /\ \E s \in StatePool :
       /\ And(s, 121 .. 127) # {}
       /\ And(s, 0 .. 12) # {}
       /\ raw_after(s, 1) # s

(* C6: the state update is linear over GF(2) and maps 0 to 0.              *)
C6_Linearity ==
  /\ next_raw_value({}) = {}
  /\ \A s2 \in StatePool :
       next_raw_value(Xor(rng_state, s2))
         = Xor(next_raw_value(rng_state), next_raw_value(s2))

C6_Witness ==
  /\ Len(raw_outs) >= 1
  /\ \E s2 \in StatePool :
       /\ And(rng_state, s2) # {}
       /\ s2 # rng_state
       /\ next_raw_value(Xor(rng_state, s2)) # {}

(* C7: with the top 64 bits revealed, a state returned from k >= 2         *)
(* observations forecasts the top 64 bits of the generator's next output.  *)
C7_TruncatedConsistency ==
  (/\ pc = "done"
   /\ variant = "recover"
   /\ OUTPUT_MODE = "raw"
   /\ OUTPUT_SELECT = "high"
   /\ output_bits = 64
   /\ Len(obs) >= 2) =>
     ShiftRight(predicted[1], 64) = ShiftRight(raw_outs[Len(raw_outs)], 64)

(* C8: the row built for observed bit b of step t is the mask of the       *)
(* absolute position of that bit: W - bits + b under "high", b under "low". *)
revealed_position(b) ==
  IF OUTPUT_SELECT = "high" THEN BITS - output_bits + b ELSE b

C8_RowsUseAbsolutePositions ==
  (/\ pc = "solve"
   /\ variant = "recover"
   /\ OUTPUT_MODE = "raw"
   /\ output_bits <= BITS) =>
     /\ Len(rows) = Len(obs) * output_bits
     /\ \A t \in 0 .. (Len(obs) - 1) : \A b \in 0 .. (output_bits - 1) :
          rows[t * output_bits + b + 1] = maps[t + 1][revealed_position(b)]

(* C9: on observations that are not a run s, advance(s), ... of the linear *)
(* generator (the HMAC generator's), solve_gf2 returns None.               *)
C9_NonLinearRejected ==
  (/\ pc = "solved"
   /\ OUTPUT_MODE = "hmac"
   /\ Len(obs) >= 2
   /\ obs[2] # next_raw_value(obs[1])) => sol = None

(* C10: with a non-empty observation list, revealed_bits > W or            *)
(* revealed_bits = 0 is rejected when the equations are constructed and    *)
(* never reaches the solver.                                               *)
C10_BadConfigurationRejected ==
  (/\ variant = "recover"
   /\ Len(obs) > 0
   /\ Len(obs) = samples
   /\ output_bits > BITS \/ output_bits = 0) => ~solver_reached

(* C13: step map 0 is the identity and no mask of a later step is zero, so *)
(* construct_equations appends one row for every observed bit.             *)
C13_MasksNeverZero ==
  /\ (pc = "construct" /\ Len(maps) >= 1) =>
        /\ \A i \in 0 .. (BITS - 1) : maps[1][i] = {i}
        /\ \A t \in 1 .. Len(maps) : \A i \in 0 .. (BITS - 1) : maps[t][i] # {}
  /\ (pc = "solve" /\ equation_bits <= BITS) =>
        Len(rows) = Len(obs) * equation_bits

C13_Witness ==
  /\ pc = "solve"
  /\ variant = "recover"
  /\ Len(maps) >= 3
  /\ equation_bits = BITS
  /\ Len(rows) = 3 * BITS
  /\ Cardinality(maps[3][0]) > 1

(* C14: solve_gf2 returns None exactly when the system has no solution,    *)
(* and a returned state is 0 in every column without a pivot.              *)
used_columns == UNION {rows[k] : k \in 1 .. Len(rows)}

Consistent ==
  \E x \in SUBSET used_columns :
     \A k \in 1 .. Len(rows) : satisfies(rows[k], x, rhs[k])

pivot_columns == {p[1] : p \in pivot}

C11_StateWithin128Bits ==
  pc = "rng" =>
     /\ rng_state \subseteq 0 .. 127
     /\ \A k \in 1 .. Len(raw_outs) : raw_outs[k] \subseteq 0 .. 127
     /\ peeked # None => peeked[1] \subseteq 0 .. 127

C11_Witness ==
  /\ pc = "rng"
  /\ ~(SEED_VAL \subseteq 0 .. 127)
  /\ Len(raw_outs) >= 2
  /\ peeked # None
  /\ 127 \in rng_state

(* C12: predict_next_from_state(s, n) is the value of the n-th of n        *)
(* successive next_raw calls from state s (s itself for n = 0), and the    *)
(* loop over advance_once gives the same value.                            *)
C12_ForwardSimulationAgrees ==
  pc = "rng" =>
     LET s0 == Linear128RNG_init(SEED_VAL)
         n  == Len(raw_outs)
         start(m) == IF m = 0 THEN s0 ELSE raw_outs[m]
     IN  /\ predict_next_from_state(rng_state, 0) = rng_state
         /\ \A m \in 0 .. n :
              /\ predict_next_from_state(start(m), n - m) = start(n)
              /\ advance_loop(start(m), n - m) = start(n)
         /\ start(n) = rng_state

C12_Witness ==
  /\ pc = "rng"
  /\ Len(raw_outs) >= 3
  /\ rng_state # {}
  /\ rng_state # Linear128RNG_init(SEED_VAL)
  /\ \E i \in rng_state : i < 37
  /\ predict_next_from_state(Linear128RNG_init(SEED_VAL), Len(raw_outs)) = rng_state

(* C15: the generator has advanced once per /get_output and once per       *)
(* /validate answered 200, never on a /validate answered 400; a /validate  *)
(* answered 200 compared its candidate with the output of that advance.    *)
advances ==
  Cardinality({k \in 1 .. Len(requests) :
                 requests[k][1] = "get_output" \/ requests[k][2] = 200})

C15_OneAdvancePerServedRequest ==
  pc = "serving" =>
     /\ Len(raw_outs) = advances
     /\ OUTPUT_MODE = "raw" =>
          rng_state = raw_after(Linear128RNG_init(SEED_VAL), advances)
     /\ (Len(requests) >= 1 /\ requests[Len(requests)] = <<"validate", 200>>) =>
          /\ expected = <<mask_output(raw_outs[advances], output_bits, OUTPUT_SELECT)>>
          /\ OUTPUT_MODE = "raw" =>
               raw_outs[advances] = raw_after(Linear128RNG_init(SEED_VAL), advances)
          /\ ok = (And(cand[1], Ones(output_bits)) = expected[1])

C15_Witness ==
  /\ pc = "serving"
  /\ OUTPUT_MODE = "raw"
  /\ Len(requests) >= 4
  /\ requests[1] = <<"get_output", 200>>
  /\ requests[2] = <<"validate", 400>>
  /\ requests[3] = <<"validate", 200>>
  /\ requests[4] = <<"validate", 200>>
  /\ advances = 3
  /\ rng_state # raw_after(Linear128RNG_init(SEED_VAL), 2)
  /\ ok

====
